---- MODULE Spec2Model ----
(***************************************************************************)
(* elk/__main__.py, run(): the command orchestrator of `elk`.  Every       *)
(* process of a launch executes run() once: it parses the command line,    *)
(* takes the `list` fast path or resolves the layer list, joins the        *)
(* process group when LOCAL_RANK is set, resolves the device, gates        *)
(* standard output and dispatches to extract / train / elicit / eval.      *)
(* The actions below are the steps of run() between its calls to external  *)
(* collaborators (argparse, AutoConfig, torch.distributed, run_extraction, *)
(* train, evaluate, list_runs); what a collaborator returns or raises is   *)
(* an input drawn from a small set.                                        *)
(***************************************************************************)
EXTENDS Integers, Sequences, FiniteSets, TLC

\* ---------------------------------------------------------------- bounds
\* Largest number of processes in one launch.
MaxProcs == 2
\* Largest --layer-stride given on the command line.
MaxStride == 3
\* Largest layer count the model-config provider reports.
MaxLayers == 5

\* ------------------------------------------------------------ vocabulary
None == "None"

\* The subcommands registered with the parser (lines 27-56).
Commands == {"extract", "train", "elicit", "eval", "list"}

\* A word on the command line that is no registered subcommand.
Bogus == "bogus"

\* Exceptions an action (run_extraction, train, evaluate, list_runs) raises.
Errors == {"FileNotFoundError", "EOFError", "OtherError"}

\* What a call to an action ends with.
Outcomes == {"ok"} \cup Errors

\* An absent device (args.device is None), the CPU, accelerator number i.
NoDevice == [kind |-> None, index |-> 0]
Cpu == [kind |-> "cpu", index |-> 0]
Cuda(i) == [kind |-> "cuda", index |-> i]

\* The original destination of a process's standard output.
Tty == "tty"

\* os.environ.get of a variable that is not set.
NoValue == <<>>

VARIABLES
    argv,         \* the command line of the launch, shared by its processes
    world,        \* number of processes of the launch
    launcher,     \* TRUE iff the launcher sets LOCAL_RANK in each process
    cuda,         \* torch.cuda.is_available()
    hidden,       \* the layer count AutoConfig reports for the model, 0
                  \* when the command line names no model
    pc,           \* pc[p]: where process p is in run()
    args,         \* args[p]: the argparse Namespace, a function on its keys
    local_rank,   \* local_rank[p] (line 83-89)
    initialized,  \* initialized[p]: dist.is_initialized() in process p
    arrived,      \* processes that have entered dist.barrier()
    stdout,       \* stdout[p]: the current sys.stdout of process p
    old_targets,  \* old_targets[p]: redirect_stdout's stack of saved targets
    out,          \* out[p]: the lines that reached the original destination
    log_level,    \* log_level[p]: level of the "transformers" logger
    queries,      \* queries[p]: calls of AutoConfig.from_pretrained
    stages,       \* stages[p]: the stages of run() process p has completed
    hist,         \* hist[p]: the calls process p made and how each ended
    ids,          \* ids[p]: each args_to_uuid result and, for each call of an
                  \* action, the args.name the call was given
    err           \* err[p]: the exception that ended run(), or None

env == <<argv, world, launcher, cuda, hidden>>
vars == <<argv, world, launcher, cuda, hidden, pc, args, local_rank,
          initialized, arrived, stdout, old_targets, out, log_level,
          queries, stages, hist, ids, err>>

Procs == 1..world

\* ------------------------------------------------------------ pure parts

\* range(start, stop, step) of line 78, as a list.
RECURSIVE range(_, _, _)
range(start, stop, step) ==
    IF start >= stop THEN <<>>
    ELSE <<start>> \o range(start + step, stop, step)

\* getattr(a, k, default) of lines 66 and 70.
getattr(a, k, default) == IF k \in DOMAIN a THEN a[k] ELSE default

\* Assignment to an attribute of the Namespace: args.k = v.
setattr(a, k, v) == [x \in DOMAIN a \cup {k} |-> IF x = k THEN v ELSE a[x]]

\* The decimal digits, as the launcher writes them into LOCAL_RANK.
Digits == <<"0", "1", "2", "3", "4", "5", "6", "7", "8", "9">>

\* str(n): the decimal text of n >= 0, a sequence of digit characters.
RECURSIVE str(_)
str(n) ==
    IF n < 10 THEN <<Digits[n + 1]>>
    ELSE str(n \div 10) \o <<Digits[(n % 10) + 1]>>

DigitValue(c) == CHOOSE d \in 0..9 : Digits[d + 1] = c

\* int(s) of line 87: the value of a decimal text.
RECURSIVE int(_)
int(s) ==
    IF Len(s) = 0 THEN 0
    ELSE 10 * int(SubSeq(s, 1, Len(s) - 1)) + DigitValue(s[Len(s)])

\* os.environ.get("LOCAL_RANK") of line 83 in process p: the launcher
\* numbers the processes of a node from 0.
environ_LOCAL_RANK(p) == IF launcher THEN str(p - 1) ELSE NoValue

\* The order in which vars(args) lists the keys (insertion order).
KeyOrder == <<"command", "name", "model", "layers", "layer_stride", "device">>

\* list(vars(args).keys()) of line 103.
keys(a) == SelectSeq(KeyOrder, LAMBDA k : k \in DOMAIN a)

\* The Namespace parse_args builds from the command line (line 57).
\* `list` has no options; `train` and `eval` take the run name; a model is
\* an attribute only when given.
Namespace(v) ==
    LET base == [x \in {"command"} |-> v.command]
        heavy == [x \in {"command", "layers", "layer_stride", "device"} |->
                    CASE x = "command" -> v.command
                      [] x = "layers" -> v.layers
                      [] x = "layer_stride" -> v.layer_stride
                      [] OTHER -> v.device]
        named == IF v.command \in {"train", "eval"}
                 THEN setattr(heavy, "name", "run") ELSE heavy
    IN IF v.command = "list" THEN base
       ELSE IF v.model = None THEN named
       ELSE setattr(named, "model", v.model)

\* args_to_uuid(args) of line 118: an identifier determined by the
\* Namespace's content.
args_to_uuid(a) == <<"uuid", a>>

\* ------------------------------------------------------------------ Init

Argvs ==
    [command : Commands \cup {Bogus},
     model : {None, "gpt2"},
     layers : {<<>>, <<1, 2>>},
     layer_stride : 1..MaxStride,
     device : {NoDevice, Cpu}]

Init ==
    /\ argv \in Argvs
    /\ world \in 1..MaxProcs
    /\ launcher \in BOOLEAN
    /\ (~launcher) => world = 1
    /\ cuda \in BOOLEAN
    /\ hidden \in IF argv.model = None THEN {0} ELSE 1..MaxLayers
    /\ pc = [p \in Procs |-> "start"]
    /\ args = [p \in Procs |-> <<>>]
    /\ local_rank = [p \in Procs |-> 0]
    /\ initialized = [p \in Procs |-> FALSE]
    /\ arrived = {}
    /\ stdout = [p \in Procs |-> Tty]
    /\ old_targets = [p \in Procs |-> <<>>]
    /\ out = [p \in Procs |-> <<>>]
    /\ log_level = [p \in Procs |-> "WARNING"]
    /\ queries = [p \in Procs |-> 0]
    /\ stages = [p \in Procs |-> <<>>]
    /\ hist = [p \in Procs |-> <<>>]
    /\ ids = [p \in Procs |-> <<>>]
    /\ err = [p \in Procs |-> None]

\* ------------------------------------------------------- steps of run()

\* A call of an action, or its end, as recorded in hist.
Event(name, how) == <<name, how>>

record(p, events) == [hist EXCEPT ![p] = @ \o events]

\* The action `name` is called with the Namespace a: the run it works on
\* is the one a.name names.
addressed(p, name, a) ==
    [ids EXCEPT ![p] = Append(@, <<name, getattr(a, "name", None)>>)]

\* Process p has completed the stage `name` of run().
completed(p, name) == [stages EXCEPT ![p] = Append(@, name)]

\* print(...) in process p: the lines reach the original destination only
\* when sys.stdout is that destination; with sys.stdout = None print
\* writes nothing.
print(p, lines) == [out EXCEPT ![p] = IF stdout[p] = Tty THEN @ \o lines ELSE @]

\* Faulty variant of line 101: the test of the rank is inverted.
enter_stdout_on_root(p) ==
    IF local_rank[p] = 0 THEN None ELSE stdout[p]

\* Line 101, entering the with block: redirect_stdout(None) saves the
\* current sys.stdout and installs None; nullcontext() does nothing.
enter_stdout(p) ==
    IF local_rank[p] # 0 THEN None ELSE stdout[p]

enter_targets(p) ==
    IF local_rank[p] # 0 THEN Append(old_targets[p], stdout[p])
    ELSE old_targets[p]

\* Leaving the with block of line 101, by return or by exception:
\* redirect_stdout restores the target it saved, nullcontext does nothing.
exit_stdout(p) ==
    IF Len(old_targets[p]) > 0 THEN old_targets[p][Len(old_targets[p])]
    ELSE stdout[p]

exit_targets(p) ==
    IF Len(old_targets[p]) > 0
    THEN SubSeq(old_targets[p], 1, Len(old_targets[p]) - 1)
    ELSE old_targets[p]

\* run() ends before the with block: e is the exception, None on return.
Finish(p, e) ==
    /\ pc' = [pc EXCEPT ![p] = IF e = None THEN "done" ELSE "failed"]
    /\ err' = [err EXCEPT ![p] = e]

\* Faulty variant of line 101: sys.stdout is put back after the block
\* without try/finally, so an exception skips the restore.
LeaveRestoringOnReturnOnly(p, e) ==
    /\ Finish(p, e)
    /\ stdout' = [stdout EXCEPT ![p] = IF e = None THEN exit_stdout(p) ELSE @]
    /\ old_targets' = [old_targets EXCEPT ![p] = IF e = None THEN exit_targets(p) ELSE @]

\* run() ends inside the with block of line 101: the block is left first.
Leave(p, e) ==
    /\ Finish(p, e)
    /\ stdout' = [stdout EXCEPT ![p] = exit_stdout(p)]
    /\ old_targets' = [old_targets EXCEPT ![p] = exit_targets(p)]

\* Lines 24-57: parse_args accepts the registered subcommands only and
\* exits the process on any other word.
ParseArgs(p) ==
    /\ pc[p] = "start"
    /\ IF argv.command \in Commands
       THEN /\ args' = [args EXCEPT ![p] = Namespace(argv)]
            /\ pc' = [pc EXCEPT ![p] = "parsed"]
            /\ err' = err
       ELSE /\ Finish(p, "SystemExit")
            /\ args' = args
    /\ UNCHANGED <<env, ids, stages, local_rank, initialized, arrived, stdout,
                   old_targets, out, log_level, queries, hist>>

\* Faulty variant of lines 60-62: the return after list_runs is missing,
\* so run() goes on to line 64 (where the Namespace has no model).
ListRunsThenContinue(p) ==
    /\ pc[p] = "parsed"
    /\ args[p].command = "list"
    /\ \E o \in Outcomes :
        /\ hist' = record(p, <<Event("list_runs", "call"), Event("list_runs", o)>>)
        /\ IF o = "ok"
           THEN pc' = [pc EXCEPT ![p] = "rank"] /\ err' = err
           ELSE Finish(p, o)
    /\ out' = print(p, <<<<"list_runs">>>>)
    /\ UNCHANGED <<env, ids, stages, args, local_rank, initialized, arrived, stdout,
                   old_targets, log_level, queries>>

\* Lines 59-62: `elk list` calls list_runs and returns.
ListRuns(p) ==
    /\ pc[p] = "parsed"
    /\ args[p].command = "list"
    /\ \E o \in Outcomes :
        /\ hist' = record(p, <<Event("list_runs", "call"), Event("list_runs", o)>>)
        /\ Finish(p, IF o = "ok" THEN None ELSE o)
    /\ out' = print(p, <<<<"list_runs">>>>)
    /\ UNCHANGED <<env, ids, stages, args, local_rank, initialized, arrived, stdout,
                   old_targets, log_level, queries>>

\* Faulty variant of lines 73-76: the check is left out.
conflict_unchecked(a) == FALSE

\* Line 73: both --layers and --layer-stride are given.
conflict(a) == a.layers # <<>> /\ a.layer_stride > 1

\* Faulty variant of line 78: the stop of the range is inclusive.
resolved_layers_inclusive(a, num_layers) ==
    IF a.layer_stride > 1 THEN range(0, num_layers + 1, a.layer_stride)
    ELSE a.layers

\* Lines 77-78: the layer list after resolution against num_layers.
resolved_layers(a, num_layers) ==
    IF a.layer_stride > 1 THEN range(0, num_layers, a.layer_stride)
    ELSE a.layers

\* Lines 66-78: with a model, ask AutoConfig for its layer count (the call
\* raises when the model is unknown), reject --layers with --layer-stride,
\* expand the stride.
ResolveLayers(p) ==
    /\ pc[p] = "parsed"
    /\ args[p].command # "list"
    /\ IF getattr(args[p], "model", None) = None
       THEN /\ pc' = [pc EXCEPT ![p] = "rank"]
            /\ stages' = completed(p, "layers")
            /\ UNCHANGED <<args, queries, err>>
       ELSE /\ queries' = [queries EXCEPT ![p] = @ + 1]
            /\ \E found \in BOOLEAN :
                IF ~found
                THEN Finish(p, "OSError") /\ UNCHANGED <<args, stages>>
                ELSE IF conflict(args[p])
                THEN Finish(p, "ValueError") /\ UNCHANGED <<args, stages>>
                ELSE /\ args' = [args EXCEPT ![p] =
                            setattr(@, "layers", resolved_layers(@, hidden))]
                     /\ pc' = [pc EXCEPT ![p] = "rank"]
                     /\ stages' = completed(p, "layers")
                     /\ err' = err
    /\ UNCHANGED <<env, ids, local_rank, initialized, arrived, stdout,
                   old_targets, out, log_level, hist>>

\* Faulty variant of line 85: the group is joined whether or not
\* LOCAL_RANK is set.
distributed_always(p) == TRUE

\* Line 85: the process was started by a distributed launcher.
distributed(p) == environ_LOCAL_RANK(p) # NoValue

\* Lines 83-89: with LOCAL_RANK set, join the process group (which may
\* fail) and take the rank from the variable; otherwise the rank is 0.
InitProcessGroup(p) ==
    /\ pc[p] = "rank"
    /\ IF distributed(p)
       THEN \E ok \in BOOLEAN :
            IF ok
            THEN /\ initialized' = [initialized EXCEPT ![p] = TRUE]
                 /\ local_rank' = [local_rank EXCEPT ![p] = int(environ_LOCAL_RANK(p))]
                 /\ pc' = [pc EXCEPT ![p] = "device"]
                 /\ stages' = completed(p, "group")
                 /\ err' = err
            ELSE /\ Finish(p, "DistError")
                 /\ UNCHANGED <<initialized, local_rank, stages>>
       ELSE /\ local_rank' = [local_rank EXCEPT ![p] = 0]
            /\ pc' = [pc EXCEPT ![p] = "device"]
            /\ stages' = completed(p, "group")
            /\ UNCHANGED <<initialized, err>>
    /\ UNCHANGED <<env, ids, args, arrived, stdout, old_targets, out, log_level,
                   queries, hist>>

\* Faulty variant of line 98: every process takes the first accelerator.
resolved_device_first(a, rank) ==
    IF a.device = NoDevice
    THEN IF ~cuda THEN Cpu ELSE Cuda(0)
    ELSE a.device

\* Lines 92-98: the device after resolution.
resolved_device(a, rank) ==
    IF a.device = NoDevice
    THEN IF ~cuda THEN Cpu ELSE Cuda(rank)
    ELSE a.device

\* Lines 91-98.
ResolveDevice(p) ==
    /\ pc[p] = "device"
    /\ args' = [args EXCEPT ![p] =
                    setattr(@, "device", resolved_device(@, local_rank[p]))]
    /\ pc' = [pc EXCEPT ![p] = "gate"]
    /\ stages' = completed(p, "device")
    /\ UNCHANGED <<env, ids, local_rank, initialized, arrived, stdout,
                   old_targets, out, log_level, queries, hist, err>>

\* Line 101: enter the with block.
EnterGate(p) ==
    /\ pc[p] = "gate"
    /\ stdout' = [stdout EXCEPT ![p] = enter_stdout(p)]
    /\ old_targets' = [old_targets EXCEPT ![p] = enter_targets(p)]
    /\ pc' = [pc EXCEPT ![p] = "echo"]
    /\ stages' = completed(p, "gate")
    /\ UNCHANGED <<env, ids, args, local_rank, initialized, arrived, out,
                   log_level, queries, hist, err>>

\* Lines 103-104: one line "key: value" per key of the Namespace.
echo(a) == [i \in 1..Len(keys(a)) |-> <<keys(a)[i], a[keys(a)[i]]>>]

\* Lines 103-107: print the arguments, quieten the transformers logger on
\* the processes other than the first.
EchoArgs(p) ==
    /\ pc[p] = "echo"
    /\ out' = print(p, echo(args[p]))
    /\ log_level' = [log_level EXCEPT ![p] =
                        IF local_rank[p] # 0 THEN "ERROR" ELSE @]
    /\ pc' = [pc EXCEPT ![p] = "dispatch"]
    /\ stages' = completed(p, "echo")
    /\ UNCHANGED <<env, ids, args, local_rank, initialized, arrived, stdout,
                   old_targets, queries, hist, err>>

\* Starting the action `name`: the call is recorded, its output goes to
\* the current sys.stdout, and the process waits at `at` for its end.
Call(p, name, at) ==
    /\ hist' = record(p, <<Event(name, "call")>>)
    /\ out' = print(p, <<<<name>>>>)
    /\ pc' = [pc EXCEPT ![p] = at]

\* Faulty variant of lines 130-133: the eval branch calls train.
action_eval_trains(command) ==
    IF command = "extract" THEN "run_extraction" ELSE "train"

\* Lines 113-133: the function the branch of a command calls first.
action(command) ==
    CASE command = "extract" -> "run_extraction"
      [] command = "eval" -> "evaluate"
      [] OTHER -> "train"

\* Faulty variant of lines 115-119: the try block also wraps the train of
\* the train command.
entry_train_as_elicit(command) ==
    IF command \in {"train", "elicit"} THEN "train1" ELSE command

\* Lines 113-133: where run() waits for that call to end; elicit's train
\* is the one inside the try block of line 119.
entry(command) == IF command = "elicit" THEN "train1" ELSE command

\* Lines 113-135, the branch on args.command: start the command's action;
\* elicit first stores the run's identifier in args.name (line 118); a
\* command of no branch raises ValueError.
Dispatch(p) ==
    /\ pc[p] = "dispatch"
    /\ IF args[p].command \in {"extract", "train", "elicit", "eval"}
       THEN /\ args' = [args EXCEPT ![p] =
                        IF @.command = "elicit"
                        THEN setattr(@, "name", args_to_uuid(@)) ELSE @]
            /\ Call(p, action(args[p].command), entry(args[p].command))
            /\ ids' = [ids EXCEPT ![p] =
                        (IF args[p].command = "elicit"
                         THEN Append(@, <<"args_to_uuid", args'[p]["name"]>>)
                         ELSE @)
                        \o <<<<action(args[p].command),
                               getattr(args'[p], "name", None)>>>>]
            /\ stages' = completed(p, "dispatch")
            /\ UNCHANGED <<err, stdout, old_targets>>
       ELSE /\ Leave(p, "ValueError")
            /\ UNCHANGED <<args, hist, out, stages, ids>>
    /\ UNCHANGED <<env, local_rank, initialized, arrived, log_level, queries>>

\* The action a process waiting at `at` is in.
running(at) ==
    CASE at = "extract" -> "run_extraction"
      [] at = "eval" -> "evaluate"
      [] OTHER -> "train"

\* Lines 114, 116, 133: the action of extract, train or eval ends; what it
\* raises leaves run() as it is.
ActionReturn(p) ==
    /\ pc[p] \in {"extract", "train", "eval"}
    /\ \E o \in Outcomes :
        /\ hist' = record(p, <<Event(running(pc[p]), o)>>)
        /\ Leave(p, IF o = "ok" THEN None ELSE o)
    /\ UNCHANGED <<env, ids, stages, args, local_rank, initialized, arrived, out,
                   log_level, queries>>

\* Faulty variant of line 121: `except FileNotFoundError` alone.
caught_missing_file_only(o) == o = "FileNotFoundError"

\* Faulty variant of line 121: a bare `except Exception`.
caught_any(o) == o # "ok"

\* Line 121: the exceptions of the first train the except clause catches.
caught(o) == o \in {"EOFError", "FileNotFoundError"}

\* Faulty variant of lines 121-122: the handler computes the identifier
\* again before it calls run_extraction.
handler_args_renamed(a) == setattr(a, "name", args_to_uuid(a))

\* Lines 121-128: the handler passes on the Namespace of the first train
\* as it is; args.name is assigned at line 118 only.
handler_args(a) == a

\* Lines 119-122: the first train of elicit ends.  On EOFError or
\* FileNotFoundError the handler starts run_extraction; any other
\* exception leaves run().
TrainReturn(p) ==
    /\ pc[p] = "train1"
    /\ \E o \in Outcomes :
        IF o = "ok" \/ ~caught(o)
        THEN /\ hist' = record(p, <<Event("train", o)>>)
             /\ Leave(p, IF o = "ok" THEN None ELSE o)
             /\ UNCHANGED <<out, args, ids>>
        ELSE /\ hist' = record(p, <<Event("train", o), Event("run_extraction", "call")>>)
             /\ args' = [args EXCEPT ![p] = handler_args(@)]
             /\ ids' = addressed(p, "run_extraction", args'[p])
             /\ out' = print(p, <<<<"run_extraction">>>>)
             /\ pc' = [pc EXCEPT ![p] = "fallback"]
             /\ UNCHANGED <<err, stdout, old_targets>>
    /\ UNCHANGED <<env, stages, local_rank, initialized, arrived, log_level,
                   queries>>

\* Faulty variant of lines 125-126: the barrier is left out.
synchronises_never(p) == FALSE

\* Faulty variant of lines 125-126: only the first process of the group
\* enters the barrier.
synchronises_root_only(p) == initialized[p] /\ local_rank[p] = 0

\* Line 125: the handler synchronises only in an initialised group.
synchronises(p) == initialized[p]

\* Faulty variant of lines 122-128: what run_extraction raises is
\* swallowed and the handler goes on to the barrier and the second train.
ExtractionReturnSwallowing(p) ==
    /\ pc[p] = "fallback"
    /\ \E o \in Outcomes :
        IF synchronises(p)
        THEN /\ hist' = record(p, <<Event("run_extraction", o), Event("barrier", "call")>>)
             /\ arrived' = arrived \cup {p}
             /\ pc' = [pc EXCEPT ![p] = "barrier"]
             /\ UNCHANGED <<err, stdout, old_targets, out, ids>>
        ELSE /\ hist' = record(p, <<Event("run_extraction", o), Event("train", "call")>>)
             /\ ids' = addressed(p, "train", args[p])
             /\ out' = print(p, <<<<"train">>>>)
             /\ pc' = [pc EXCEPT ![p] = "train2"]
             /\ UNCHANGED <<err, stdout, old_targets, arrived>>
    /\ UNCHANGED <<env, stages, args, local_rank, initialized, log_level, queries>>

\* Lines 122-128: run_extraction of the handler ends.  What it raises
\* leaves run(); on return the process enters dist.barrier() when the
\* group is initialised and starts the second train otherwise.
ExtractionReturn(p) ==
    /\ pc[p] = "fallback"
    /\ \E o \in Outcomes :
        IF o # "ok"
        THEN /\ hist' = record(p, <<Event("run_extraction", o)>>)
             /\ Leave(p, o)
             /\ UNCHANGED <<arrived, out, ids>>
        ELSE IF synchronises(p)
        THEN /\ hist' = record(p, <<Event("run_extraction", o), Event("barrier", "call")>>)
             /\ arrived' = arrived \cup {p}
             /\ pc' = [pc EXCEPT ![p] = "barrier"]
             /\ UNCHANGED <<err, stdout, old_targets, out, ids>>
        ELSE /\ hist' = record(p, <<Event("run_extraction", o), Event("train", "call")>>)
             /\ ids' = addressed(p, "train", args[p])
             /\ out' = print(p, <<<<"train">>>>)
             /\ pc' = [pc EXCEPT ![p] = "train2"]
             /\ UNCHANGED <<err, stdout, old_targets, arrived>>
    /\ UNCHANGED <<env, stages, args, local_rank, initialized, log_level, queries>>

\* dist.barrier() returns in a process once every process of the group
\* has entered it.
released == arrived = Procs

\* Lines 126-128: dist.barrier() returns and the second train starts.
BarrierReturn(p) ==
    /\ pc[p] = "barrier"
    /\ released
    /\ hist' = record(p, <<Event("barrier", "ok"), Event("train", "call")>>)
    /\ ids' = addressed(p, "train", args[p])
    /\ out' = print(p, <<<<"train">>>>)
    /\ pc' = [pc EXCEPT ![p] = "train2"]
    /\ UNCHANGED <<env, stages, args, local_rank, initialized, arrived, stdout,
                   old_targets, log_level, queries, err>>

\* Faulty variant of line 128: the second train is wrapped in the same
\* handler as the first, so a missing-input signal starts run_extraction
\* again.
RetryReturnWithFallback(p) ==
    /\ pc[p] = "train2"
    /\ \E o \in Outcomes :
        IF o \in {"EOFError", "FileNotFoundError"}
        THEN /\ hist' = record(p, <<Event("train", o), Event("run_extraction", "call")>>)
             /\ ids' = addressed(p, "run_extraction", args[p])
             /\ out' = print(p, <<<<"run_extraction">>>>)
             /\ pc' = [pc EXCEPT ![p] = "fallback"]
             /\ UNCHANGED <<err, stdout, old_targets>>
        ELSE /\ hist' = record(p, <<Event("train", o)>>)
             /\ Leave(p, IF o = "ok" THEN None ELSE o)
             /\ UNCHANGED <<out, ids>>
    /\ UNCHANGED <<env, stages, args, local_rank, initialized, arrived,
                   log_level, queries>>

\* Line 128: the second train ends; what it raises leaves run().
RetryReturn(p) ==
    /\ pc[p] = "train2"
    /\ \E o \in Outcomes :
        /\ hist' = record(p, <<Event("train", o)>>)
        /\ Leave(p, IF o = "ok" THEN None ELSE o)
    /\ UNCHANGED <<env, ids, stages, args, local_rank, initialized, arrived, out,
                   log_level, queries>>

Next ==
    \/ \E p \in Procs : ParseArgs(p)
    \/ \E p \in Procs : ListRuns(p)
    \/ \E p \in Procs : ResolveLayers(p)
    \/ \E p \in Procs : InitProcessGroup(p)
    \/ \E p \in Procs : ResolveDevice(p)
    \/ \E p \in Procs : EnterGate(p)
    \/ \E p \in Procs : EchoArgs(p)
    \/ \E p \in Procs : Dispatch(p)
    \/ \E p \in Procs : ActionReturn(p)
    \/ \E p \in Procs : TrainReturn(p)
    \/ \E p \in Procs : ExtractionReturn(p)
    \/ \E p \in Procs : BarrierReturn(p)
    \/ \E p \in Procs : RetryReturn(p)

Spec == Init /\ [][Next]_vars

\* The steps of process p.
Step(p) ==
    /\ p \in Procs
    /\ \/ ParseArgs(p) \/ ListRuns(p) \/ ResolveLayers(p)
       \/ InitProcessGroup(p) \/ ResolveDevice(p) \/ EnterGate(p)
       \/ EchoArgs(p) \/ Dispatch(p) \/ ActionReturn(p) \/ TrainReturn(p)
       \/ ExtractionReturn(p) \/ BarrierReturn(p) \/ RetryReturn(p)

\* Every process is an operating-system process of its own that keeps
\* running, and every call it makes returns or raises: a process that can
\* take a step eventually takes one.
LiveSpec == Spec /\ \A p \in 1..MaxProcs : WF_vars(Step(p))

\* ------------------------------------------------- reading the history

Heavy == {"extract", "train", "elicit", "eval"}

\* The two exceptions the spec calls the missing-input signals.
MissingInput == {"FileNotFoundError", "EOFError"}

IsPrefix(s, t) == Len(s) <= Len(t) /\ SubSeq(t, 1, Len(s)) = s

\* How many times process p has called `name`.
CallsOf(p, name) ==
    Len(SelectSeq(hist[p], LAMBDA e : e = Event(name, "call")))

\* How the calls of `name` by process p ended, in order.
EndsOf(p, name) ==
    SelectSeq(hist[p], LAMBDA e : e[1] = name /\ e[2] # "call")

\* The calls of train and run_extraction by process p and their ends.
Work(p) ==
    SelectSeq(hist[p], LAMBDA e : e[1] \in {"train", "run_extraction"})

Elems(s) == {s[i] : i \in 1..Len(s)}

\* ---------------------------------------------------------------- C1
\* The run of elicit whose first train raises the missing-input signal o
\* and whose extraction and second train succeed.
FallbackRun(o) ==
    <<Event("train", "call"), Event("train", o),
      Event("run_extraction", "call"), Event("run_extraction", "ok"),
      Event("train", "call"), Event("train", "ok")>>

\* C1: in elicit, once the first train of a process has raised a
\* missing-input signal and nothing the process called since has raised,
\* its calls are, in this order, train (raising the signal), run_extraction
\* once, train once more; run() has ended exactly when the second train
\* has returned, and it has ended without an exception.
C1_FallbackRunsOnceThenSucceeds ==
    \A p \in Procs :
        (/\ argv.command = "elicit"
         /\ Len(Work(p)) >= 2
         /\ Work(p)[2][2] \in MissingInput
         /\ \A i \in 3..Len(Work(p)) : Work(p)[i][2] \in {"call", "ok"})
        => /\ IsPrefix(Work(p), FallbackRun(Work(p)[2][2]))
           /\ pc[p] # "failed"
           /\ err[p] = None
           /\ (pc[p] = "done") <=> (Work(p) = FallbackRun(Work(p)[2][2]))

C1_Witness ==
    \E p \in Procs :
        /\ argv.command = "elicit"
        /\ Work(p) = FallbackRun("EOFError")
        /\ pc[p] = "done"

\* ---------------------------------------------------------------- C2
\* C2: no process calls train more than twice or run_extraction more than
\* once; in elicit, when the second train raises, whatever it raises,
\* run() has ended with that very exception and the raise is the last
\* thing in the process's history.
C2_SecondTrainFailureIsFatal ==
    \A p \in Procs :
        /\ CallsOf(p, "train") <= 2
        /\ CallsOf(p, "run_extraction") <= 1
        /\ (/\ argv.command = "elicit"
            /\ Len(EndsOf(p, "train")) = 2
            /\ EndsOf(p, "train")[2][2] # "ok")
           => /\ pc[p] = "failed"
              /\ err[p] = EndsOf(p, "train")[2][2]
              /\ hist[p][Len(hist[p])] = Event("train", err[p])

C2_Witness ==
    \E p \in Procs :
        /\ argv.command = "elicit"
        /\ EndsOf(p, "train") =
             <<Event("train", "FileNotFoundError"), Event("train", "FileNotFoundError")>>
        /\ pc[p] = "failed"

\* ---------------------------------------------------------------- C3
\* C3: in a launch with a process group, when any process has started its
\* second train, every process of the launch has had its run_extraction
\* return and has entered the barrier.
C3_SecondTrainAfterAllExtracted ==
    \A p \in Procs :
        (launcher /\ CallsOf(p, "train") = 2)
        => \A q \in Procs :
              /\ Event("run_extraction", "ok") \in Elems(hist[q])
              /\ Event("barrier", "call") \in Elems(hist[q])
              /\ q \in arrived

C3_Witness ==
    /\ launcher
    /\ world >= 2
    /\ \E p \in Procs : CallsOf(p, "train") = 2
    /\ \E q \in Procs : pc[q] = "barrier"

\* ---------------------------------------------------------------- C4
\* C4: in elicit, when the first train raises anything other than the two
\* missing-input signals, run() has ended with that exception and the
\* process has called nothing else: no run_extraction, no barrier, no
\* second train.
C4_OtherErrorOfFirstTrainPropagates ==
    \A p \in Procs :
        (/\ argv.command = "elicit"
         /\ Len(EndsOf(p, "train")) >= 1
         /\ EndsOf(p, "train")[1][2] \notin MissingInput \cup {"ok"})
        => /\ pc[p] = "failed"
           /\ err[p] = EndsOf(p, "train")[1][2]
           /\ hist[p] = <<Event("train", "call"), Event("train", err[p])>>
           /\ p \notin arrived

C4_Witness ==
    \E p \in Procs :
        /\ argv.command = "elicit"
        /\ hist[p] = <<Event("train", "call"), Event("train", "OtherError")>>
        /\ pc[p] = "failed"

\* ---------------------------------------------------------------- C5
\* C5: for extract, train and eval a process calls the command's own
\* action once and nothing else; when that action raises, a missing-input
\* signal included, run() has ended with that exception.
C5_OnlyElicitIntercepts ==
    \A p \in Procs :
        argv.command \in {"extract", "train", "eval"}
        => /\ Len(hist[p]) <= 2
           /\ \A i \in 1..Len(hist[p]) :
                 hist[p][i][1] =
                    (CASE argv.command = "extract" -> "run_extraction"
                       [] argv.command = "train" -> "train"
                       [] OTHER -> "evaluate")
           /\ p \notin arrived
           /\ (Len(hist[p]) = 2 /\ hist[p][2][2] # "ok")
              => (pc[p] = "failed" /\ err[p] = hist[p][2][2])
           /\ (Len(hist[p]) = 2 /\ hist[p][2][2] = "ok")
              => (pc[p] = "done" /\ err[p] = None)

C5_Witness ==
    \E p \in Procs :
        /\ argv.command = "train"
        /\ hist[p] = <<Event("train", "call"), Event("train", "FileNotFoundError")>>
        /\ pc[p] = "failed"
        /\ err[p] = "FileNotFoundError"

\* ---------------------------------------------------------------- C6
\* The command line gives both --layers and a --layer-stride above 1.
BothGiven == argv.command \in Heavy /\ argv.layers # <<>> /\ argv.layer_stride > 1

\* Process p is past layer resolution (lines 66-78), by failing in it or
\* by completing it.
PastLayers(p) == pc[p] \notin {"start", "parsed"}

\* C6 as stated: with both options given, layer resolution fails with the
\* configuration-conflict error and the model-config provider is never
\* queried.
C6_ConflictFailsWithoutQuery ==
    \A p \in Procs :
        (BothGiven /\ PastLayers(p))
        => (pc[p] = "failed" /\ err[p] = "ValueError" /\ queries[p] = 0)

\* C6 amended: with both options given and a model named, the provider is
\* queried exactly once, before the check; run() then ends in layer
\* resolution, with the configuration-conflict error unless the query
\* itself raised, and no later stage or action runs.  With no model named
\* there is neither a query nor a check.
C6_ConflictFailsAfterOneQuery ==
    \A p \in Procs :
        (BothGiven /\ PastLayers(p))
        => IF argv.model # None
           THEN /\ pc[p] = "failed"
                /\ err[p] \in {"ValueError", "OSError"}
                /\ queries[p] = 1
                /\ stages[p] = <<>>
                /\ hist[p] = <<>>
                /\ ~initialized[p]
           ELSE /\ queries[p] = 0
                /\ err[p] # "ValueError"
                /\ "layers" \in Elems(stages[p])

C6_Witness ==
    \E p \in Procs :
        /\ BothGiven
        /\ argv.model # None
        /\ err[p] = "ValueError"
        /\ queries[p] = 1

\* ---------------------------------------------------------------- C7
\* C7: with a model of L >= 1 layers, a stride s > 1 and no --layers, the
\* resolved list has ceil(L/s) entries, its i-th entry is (i-1)*s, and
\* every entry is below L.
C7_StrideExpandsToMultiples ==
    \A p \in Procs :
        (/\ argv.command \in Heavy
         /\ argv.model # None
         /\ argv.layers = <<>>
         /\ argv.layer_stride > 1
         /\ hidden >= 1
         /\ "layers" \in Elems(stages[p]))
        => LET s == argv.layer_stride
               n == (hidden + s - 1) \div s
               layers == args[p]["layers"]
           IN /\ Len(layers) = n
              /\ \A i \in 1..n : layers[i] = (i - 1) * s /\ layers[i] < hidden

C7_Witness ==
    \E p \in Procs :
        /\ argv.model # None
        /\ argv.layers = <<>>
        /\ argv.layer_stride = 2
        /\ hidden = 5
        /\ "layers" \in Elems(stages[p])
        /\ args[p]["layers"] = <<0, 2, 4>>

\* ---------------------------------------------------------------- C8
\* C8: a process running `list` only ever parses, calls list_runs and
\* ends: it joins no process group, completes no stage of the heavy path
\* (layers, group, device, gate, echo, dispatch), never queries the
\* model-config provider, gets no device attribute and calls no action
\* other than list_runs; after a normal return it has called list_runs
\* exactly once.
C8_ListTakesTheFastPath ==
    \A p \in Procs :
        argv.command = "list"
        => /\ pc[p] \in {"start", "parsed", "done", "failed"}
           /\ ~initialized[p]
           /\ stages[p] = <<>>
           /\ queries[p] = 0
           /\ DOMAIN args[p] \subseteq {"command"}
           /\ \A i \in 1..Len(hist[p]) : hist[p][i][1] = "list_runs"
           /\ pc[p] = "done"
              => hist[p] = <<Event("list_runs", "call"), Event("list_runs", "ok")>>

C8_Witness ==
    \E p \in Procs :
        /\ argv.command = "list"
        /\ pc[p] = "done"
        /\ hist[p] = <<Event("list_runs", "call"), Event("list_runs", "ok")>>

\* ---------------------------------------------------------------- C9
\* C9: when run() has ended on a process whose rank is not 0, by return
\* or by any exception, sys.stdout is the destination it was at the start
\* and redirect_stdout holds no saved target.
C9_StdoutRestoredOnEveryExit ==
    \A p \in Procs :
        (local_rank[p] # 0 /\ pc[p] \in {"done", "failed"})
        => (stdout[p] = Tty /\ old_targets[p] = <<>>)

C9_Witness ==
    \E p \in Procs :
        /\ local_rank[p] # 0
        /\ pc[p] = "failed"
        /\ argv.command = "elicit"
        /\ CallsOf(p, "train") = 2
        /\ err[p] = "EOFError"
        /\ stdout[p] = Tty

\* --------------------------------------------------------------- C10
\* The attributes the Namespace of process p had when line 103 ran: elicit
\* adds `name` only afterwards (line 118).
EchoedFields(p) ==
    IF argv.command = "elicit" THEN DOMAIN args[p] \ {"name"} ELSE DOMAIN args[p]

\* C10: nothing ever reaches the original standard output of a process
\* whose rank is not 0.  On a process of rank 0 that has printed the
\* arguments, the output starts with exactly one line per attribute of the
\* Namespace, carrying the attribute's value, and whatever the action
\* printed comes after these lines.
C10_OnlyRootPrints ==
    \A p \in Procs :
        /\ local_rank[p] # 0 => out[p] = <<>>
        /\ (local_rank[p] = 0 /\ "echo" \in Elems(stages[p]))
           => LET n == Cardinality(EchoedFields(p))
              IN /\ Len(out[p]) >= n
                 /\ {out[p][i][1] : i \in 1..n} = EchoedFields(p)
                 /\ \A i \in 1..n :
                       /\ Len(out[p][i]) = 2
                       /\ out[p][i][2] = args[p][out[p][i][1]]
                 /\ \A i \in (n + 1)..Len(out[p]) : Len(out[p][i]) = 1
                 /\ Len(out[p]) - n = Len(SelectSeq(hist[p], LAMBDA e :
                        e[2] = "call" /\ e[1] # "barrier"))

C10_Witness ==
    /\ world >= 2
    /\ \E p \in Procs :
          /\ local_rank[p] # 0
          /\ pc[p] = "done"
          /\ out[p] = <<>>
    /\ \E q \in Procs :
          /\ local_rank[q] = 0
          /\ pc[q] = "done"
          /\ Len(out[q]) > Cardinality(EchoedFields(q))

\* --------------------------------------------------------------- C11
\* The functions a command may call: its own action; for elicit train,
\* run_extraction and the barrier between them.
Allowed(command) ==
    CASE command = "extract" -> {"run_extraction"}
      [] command = "train" -> {"train"}
      [] command = "elicit" -> {"train", "run_extraction", "barrier"}
      [] command = "eval" -> {"evaluate"}
      [] command = "list" -> {"list_runs"}
      [] OTHER -> {}

\* The function a command calls first.
FirstCall(command) ==
    CASE command = "extract" -> "run_extraction"
      [] command = "eval" -> "evaluate"
      [] command = "list" -> "list_runs"
      [] OTHER -> "train"

\* C11: a process only ever calls the functions of its command, and the
\* first call it makes is the command's own action; for a word that is no
\* registered command run() ends with an error and the process calls
\* nothing.
C11_OneActionPerCommand ==
    \A p \in Procs :
        /\ \A i \in 1..Len(hist[p]) : hist[p][i][1] \in Allowed(argv.command)
        /\ hist[p] # <<>> => hist[p][1] = Event(FirstCall(argv.command), "call")
        /\ (argv.command \in Heavy /\ "dispatch" \in Elems(stages[p]))
           => hist[p] # <<>>
        /\ (argv.command \notin Commands /\ pc[p] # "start")
           => (pc[p] = "failed" /\ err[p] # None /\ hist[p] = <<>>)

C11_Witness ==
    \E p \in Procs :
        /\ argv.command = "eval"
        /\ pc[p] = "done"
        /\ hist[p] = <<Event("evaluate", "call"), Event("evaluate", "ok")>>

\* --------------------------------------------------------------- C12
\* C12: once a process is past lines 83-89, its group is initialised
\* exactly when LOCAL_RANK was set; with the variable set its rank is the
\* number the variable spells (the launcher gives process p the text of
\* p - 1); with the variable unset its rank is 0 and it never enters the
\* barrier.  When joining the group fails, run() has ended with that
\* error, the device is still as parsed and nothing has been called.
C12_GroupIffRankVariable ==
    \A p \in Procs :
        /\ "group" \in Elems(stages[p])
           => /\ initialized[p] <=> launcher
              /\ launcher => local_rank[p] = p - 1
              /\ ~launcher
                 => /\ local_rank[p] = 0
                    /\ pc[p] # "barrier"
                    /\ p \notin arrived
                    /\ \A i \in 1..Len(hist[p]) : hist[p][i][1] # "barrier"
        /\ err[p] = "DistError"
           => /\ pc[p] = "failed"
              /\ launcher
              /\ ~initialized[p]
              /\ "device" \notin Elems(stages[p])
              /\ args[p]["device"] = argv.device
              /\ hist[p] = <<>>

C12_Witness ==
    /\ \E p \in Procs :
          /\ launcher
          /\ local_rank[p] = 1
          /\ initialized[p]
          /\ pc[p] = "barrier"
    /\ \E q \in Procs : err[q] = "DistError"

\* --------------------------------------------------------------- C13
\* The rank the launch gives process p.
RankOf(p) == IF launcher THEN p - 1 ELSE 0

\* C13: once a process has resolved its device, the device is the one
\* given on the command line if one was given; otherwise it is the
\* accelerator whose index is the process's rank when an accelerator is
\* available, and the CPU when none is.  Two processes that took
\* accelerators this way took different ones.
C13_DeviceFollowsRank ==
    \A p \in Procs :
        "device" \in Elems(stages[p])
        => /\ args[p]["device"] =
                 (IF argv.device # NoDevice THEN argv.device
                  ELSE IF cuda THEN Cuda(RankOf(p)) ELSE Cpu)
           /\ \A q \in Procs \ {p} :
                 (/\ "device" \in Elems(stages[q])
                  /\ argv.device = NoDevice
                  /\ cuda)
                 => args[p]["device"] # args[q]["device"]

C13_Witness ==
    \E p, q \in Procs :
        /\ "device" \in Elems(stages[p])
        /\ "device" \in Elems(stages[q])
        /\ args[p]["device"] = Cuda(0)
        /\ args[q]["device"] = Cuda(1)

\* --------------------------------------------------------------- C14
\* C14 as stated: in a launch with a process group, no step in which a
\* process starts a train (its first or its second) is taken while
\* run_extraction is running in another process.
C14_NoTrainStartsDuringPeerExtraction ==
    [][\A p \in Procs :
          (launcher /\ CallsOf(p, "train")' > CallsOf(p, "train"))
          => \A q \in Procs \ {p} : pc[q] # "fallback"]_vars

\* --------------------------------------------------------------- C15
\* Some process has left the case C15 is about: run() ended with an
\* exception before its second train, or its first train did not raise a
\* missing-input signal.
Deviates ==
    \E q \in Procs :
        \/ pc[q] = "failed" /\ CallsOf(q, "train") < 2
        \/ /\ Len(EndsOf(q, "train")) >= 1
           /\ EndsOf(q, "train")[1][2] \notin MissingInput

\* Every process has entered the barrier, has been released from it and
\* has started its second train.
AllRetried ==
    \A p \in Procs :
        /\ Event("barrier", "call") \in Elems(hist[p])
        /\ Event("barrier", "ok") \in Elems(hist[p])
        /\ CallsOf(p, "train") = 2

\* C15: in an elicit launch with a process group, when processes keep
\* running, either some process leaves the case (it fails before its
\* second train, or its first train finds its input) or eventually every
\* process has entered the barrier, been released and started its second
\* train.
C15_AllEventuallyRetry ==
    (launcher /\ argv.command = "elicit") => <>(Deviates \/ AllRetried)

C15_Witness ==
    /\ launcher
    /\ world >= 2
    /\ argv.command = "elicit"
    /\ ~Deviates
    /\ AllRetried

\* --------------------------------------------------------------- C16
\* C16 as stated, in the form a finite run decides: in an elicit launch
\* with a process group of two or more, as long as run() has ended with an
\* exception in no process, either every process has left run() or some
\* process can still take a step.
C16_NoProcessStuckAtBarrier ==
    (/\ launcher
     /\ world >= 2
     /\ argv.command = "elicit"
     /\ \A q \in Procs : err[q] = None)
    => \/ \A p \in Procs : pc[p] = "done"
       \/ ENABLED Next

\* --------------------------------------------------------------- C17
\* C17: in elicit, when run_extraction raises, whatever it raises, run()
\* has ended with that exception, the raise is the last thing in the
\* process's history, and the process has neither entered the barrier nor
\* called train a second time.
C17_ExtractionFailureIsFatal ==
    \A p \in Procs :
        (/\ argv.command = "elicit"
         /\ Len(EndsOf(p, "run_extraction")) >= 1
         /\ EndsOf(p, "run_extraction")[1][2] # "ok")
        => /\ pc[p] = "failed"
           /\ err[p] = EndsOf(p, "run_extraction")[1][2]
           /\ hist[p][Len(hist[p])] = Event("run_extraction", err[p])
           /\ p \notin arrived
           /\ CallsOf(p, "barrier") = 0
           /\ CallsOf(p, "train") = 1

C17_Witness ==
    \E p \in Procs :
        /\ argv.command = "elicit"
        /\ launcher
        /\ EndsOf(p, "run_extraction") = <<Event("run_extraction", "FileNotFoundError")>>
        /\ pc[p] = "failed"

\* --------------------------------------------------------------- C18
\* C18: in elicit, args_to_uuid is evaluated once, before anything is
\* called; every call of train and run_extraction is given that value as
\* args.name, and args.name keeps it to the end.
C18_OneIdentityForAllCalls ==
    \A p \in Procs :
        (argv.command = "elicit" /\ (ids[p] # <<>> \/ hist[p] # <<>>))
        => /\ ids[p][1][1] = "args_to_uuid"
           /\ \A i \in 2..Len(ids[p]) :
                 /\ ids[p][i][1] \in {"train", "run_extraction"}
                 /\ ids[p][i][2] = ids[p][1][2]
           /\ Len(ids[p]) = 1 + CallsOf(p, "train") + CallsOf(p, "run_extraction")
           /\ args[p]["name"] = ids[p][1][2]

C18_Witness ==
    \E p \in Procs :
        /\ argv.command = "elicit"
        /\ pc[p] = "done"
        /\ Len(ids[p]) = 4
        /\ ids[p][2][1] = "train"
        /\ ids[p][3][1] = "run_extraction"
        /\ ids[p][4][1] = "train"

\* --------------------------------------------------------------- C19
\* The stages of process p the claim orders, in the order p completed
\* them.
Ordered(p) ==
    SelectSeq(stages[p], LAMBDA x : x \in {"layers", "group", "gate", "dispatch"})

\* C19 as stated: the process group comes first, then layer resolution,
\* then the output gate, then the action.
C19_GroupThenLayersThenGateThenAction ==
    \A p \in Procs :
        IsPrefix(Ordered(p), <<"group", "layers", "gate", "dispatch">>)

\* C19 amended: layer resolution comes first, then the process group,
\* then the output gate, then the action; a process that has called
\* anything on the heavy path has completed layer resolution, and with
\* a model named and both --layers and a stride above 1 given no action
\* is ever dispatched.
C19_LayersThenGroupThenGateThenAction ==
    \A p \in Procs :
        /\ IsPrefix(Ordered(p), <<"layers", "group", "gate", "dispatch">>)
        /\ (argv.command \in Heavy /\ hist[p] # <<>>)
           => Ordered(p) = <<"layers", "group", "gate", "dispatch">>
        /\ (BothGiven /\ argv.model # None)
           => ("dispatch" \notin Elems(stages[p]) /\ hist[p] = <<>>)

C19_Witness ==
    \E p \in Procs :
        /\ argv.command = "extract"
        /\ launcher
        /\ Ordered(p) = <<"layers", "group", "gate", "dispatch">>
        /\ pc[p] = "extract"

\* --------------------------------------------------------------- C20
\* The Namespace of process p without the identifier derived from it.
Configuration(p) == [k \in DOMAIN args[p] \ {"name"} |-> args[p][k]]

\* C20 as stated: in an elicit launch with a process group, any two
\* processes that have computed the identifier computed it from the same
\* configuration.
C20_SameConfigurationOnAllRanks ==
    \A p, q \in Procs :
        (/\ launcher
         /\ argv.command = "elicit"
         /\ ids[p] # <<>>
         /\ ids[q] # <<>>)
        => Configuration(p) = Configuration(q)

====
